---- MODULE Spec2Model ----
(***************************************************************************)
(* A model of yew-ethereum-provider: the wallet session handle             *)
(* UseEthereumHandle (hooks/use_ethereum.rs), the AccountLabel and         *)
(* SwitchNetworkButton components, the injected EIP-1193 provider they     *)
(* talk to, and the single-threaded task queue behind spawn_local.         *)
(*                                                                         *)
(* A call that awaits a provider request is parked until the provider      *)
(* answers; the answer wakes it, which appends it to the run queue.  A     *)
(* listener task owns one channel (the stream of its event); an event the  *)
(* provider emits is appended to the channel of every listener subscribed  *)
(* to its stream and wakes it.  Woken tasks run in FIFO order, each to its *)
(* next await, and nothing the provider or the user does happens while the *)
(* queue is being drained.                                                 *)
(***************************************************************************)
EXTENDS Integers, Sequences, FiniteSets, Bags, TLC

(***************************************************************************)
(* Bounds of the model.                                                    *)
(***************************************************************************)
\* calls in flight, and calls of connect() that succeeded
MaxCalls == 2
\* answers and events that arrived and wait for the task queue to run
MaxQueued == 2
\* width of u64, scaled down from 64 bits
U64Bits == 2
\* width of U256, scaled down from 256 bits
U256Bits == 4
\* hex digits of an H160, scaled down from 40
H160HexLen == 2

U64Max == 2^U64Bits - 1
U256Max == 2^U256Bits - 1

\* the chains the wallet can be on: one that fits u64 and the largest U256
Chains == {1, U256Max}

\* the account lists the wallet can expose (H160 values): none, or two accounts
AccountLists == {<<>>, <<10, 11>>}

(***************************************************************************)
(* Option<T> and Result<T, E> values.                                      *)
(***************************************************************************)
NoAccounts == [some |-> FALSE, v |-> <<>>]
SomeAccounts(l) == [some |-> TRUE, v |-> l]
NoChain == [some |-> FALSE, v |-> 0]
SomeChain(c) == [some |-> TRUE, v |-> c]

(***************************************************************************)
(* Conversions.                                                            *)
(***************************************************************************)
DecDigits == <<"0", "1", "2", "3", "4", "5", "6", "7", "8", "9">>
HexDigits == <<"0", "1", "2", "3", "4", "5", "6", "7", "8", "9",
               "a", "b", "c", "d", "e", "f">>

\* the digits least significant first
RECURSIVE to_string_reversed(_)
to_string_reversed(n) ==
    IF n < 10 THEN <<DecDigits[n + 1]>>
    ELSE <<DecDigits[(n % 10) + 1]>> \o to_string_reversed(n \div 10)

\* U256's Display: the decimal digits, most significant first
RECURSIVE to_string(_)
to_string(n) ==
    IF n < 10 THEN <<DecDigits[n + 1]>>
    ELSE Append(to_string(n \div 10), DecDigits[(n % 10) + 1])

DigitValue(ch) == CHOOSE d \in 0..9 : DecDigits[d + 1] = ch

\* U256::from_dec_str: Err on an empty string, a character that is no digit,
\* or a value above U256::MAX
RECURSIVE DecFold(_, _)
DecFold(s, acc) ==
    IF s = <<>> THEN [ok |-> TRUE, v |-> acc]
    ELSE IF ~(\E d \in 0..9 : DecDigits[d + 1] = Head(s))
         THEN [ok |-> FALSE, v |-> 0]
    ELSE LET next == acc * 10 + DigitValue(Head(s))
         IN  IF next > U256Max THEN [ok |-> FALSE, v |-> 0]
             ELSE DecFold(Tail(s), next)

from_dec_str(s) ==
    IF s = <<>> THEN [ok |-> FALSE, v |-> 0] ELSE DecFold(s, 0)

\* U256::as_u64: the low word when the value fits one, a panic otherwise
as_u64(v) ==
    IF v > U64Max THEN [panic |-> TRUE, v |-> 0] ELSE [panic |-> FALSE, v |-> v]

\* format!("{:?}", H160): "0x" and the hex digits, zero padded
RECURSIVE HexStr(_, _)
HexStr(a, n) ==
    IF n = 0 THEN ""
    ELSE HexStr(a \div 16, n - 1) \o HexDigits[(a % 16) + 1]

DebugH160(a) == "0x" \o HexStr(a, H160HexLen)

(***************************************************************************)
(* State.                                                                  *)
(***************************************************************************)
VARIABLES
    provider,    \* the handle's provider: "none" when use_ethereum returned None
    connected,   \* UseStateHandle<bool>
    accounts,    \* UseStateHandle<Option<Vec<H160>>>
    chain_id,    \* UseStateHandle<Option<U256>>
    wChain,      \* the wallet: its current chain
    wAccounts,   \* the wallet: the accounts it exposes
    parked,      \* the calls awaiting an answer of the provider (a bag)
    chan,        \* per event stream, the channel of each subscribed listener,
                 \* in subscription order
    runq,        \* the woken tasks, in the order they run
    draining,    \* the task queue is being run
    label,       \* what AccountLabel rendered last
    panicked,    \* "no", or the call whose panic aborted the program
    hist         \* history: the chain and the accounts the handle was told
                 \* last and by whom (connect()'s queries, or an event), and
                 \* the number of calls of connect() that succeeded, and
                 \* whether disconnect() wrote connected last; and the three
                 \* cells as they are when only the first listener of each
                 \* stream handles its events

vars == <<provider, connected, accounts, chain_id, wChain, wAccounts, parked,
          chan, runq, draining, label, panicked, hist>>

cells == <<connected, accounts, chain_id>>
wallet == <<wChain, wAccounts>>

Streams == {"chainChanged", "accountsChanged", "connect", "disconnect"}
\* the order connect() spawns its listeners in
SpawnOrder == <<"chainChanged", "accountsChanged", "connect", "disconnect">>

NoResp == [st |-> "none", accounts |-> <<>>, chain |-> 0]
ErrResp == [st |-> "err", accounts |-> <<>>, chain |-> 0]
OkResp == [st |-> "ok", accounts |-> <<>>, chain |-> 0]
AccountsResp(l) == [st |-> "ok", accounts |-> l, chain |-> 0]
ChainResp(c) == [st |-> "ok", accounts |-> <<>>, chain |-> c]

\* Result<U256>::ok()
ok(resp) == IF resp.st = "ok" THEN SomeChain(resp.chain) ELSE NoChain

\* a call: the method, where it awaits, the requests it has sent, the chain it
\* was given, the answer that woke it, add_chain's answer once taken, and its
\* result once it has returned
Call(op, pc, sent, target) ==
    [op |-> op, pc |-> pc, sent |-> sent, target |-> target, resp |-> NoResp,
     addResp |-> "none", ret |-> "none"]
NoCall == Call("none", "idle", <<>>, 0)

CallTask(f) == [k |-> "call", f |-> f, s |-> "-", n |-> 0]
\* the task of the n-th listener subscribed to stream s; n = 0 before its
\* first poll
ListenerTask(s, n) == [k |-> "listener", f |-> NoCall, s |-> s, n |-> n]

\* call f once it has returned ret
Returned(f, ret) == CallTask([f EXCEPT !.pc = "returned", !.ret = ret])

(***************************************************************************)
(* use_ethereum: the three state cells and, when a provider exists, the    *)
(* handle; the provider passed in takes precedence over the injected one.  *)
(***************************************************************************)
\* the injected provider before the one passed in
use_ethereum_injected_first(default, injected) ==
    IF injected THEN "injected" ELSE IF default THEN "default" ELSE "none"

\* lines 241-258: default.or(Provider::default().unwrap())
use_ethereum(default, injected) ==
    IF default THEN "default" ELSE IF injected THEN "injected" ELSE "none"

\* the pages considered: a provider passed in beside the injected one, and no
\* provider at all
Pages == {<<TRUE, TRUE>>, <<FALSE, FALSE>>}

(***************************************************************************)
(* The getters and the AccountLabel component.                             *)
(***************************************************************************)
\* address(): the first account
address(accs) ==
    IF accs.some /\ accs.v # <<>> THEN [some |-> TRUE, v |-> Head(accs.v)]
    ELSE [some |-> FALSE, v |-> 0]

\* display_address(): the address through {:?}, or the empty string
display_address(accs) ==
    IF address(accs).some THEN DebugH160(address(accs).v) ELSE ""

\* a label that shows the address whenever there is one
AccountLabelByAccounts(prov, conn, accs) ==
    IF prov # "none"
    THEN IF address(accs).some THEN display_address(accs) ELSE "Disconnected"
    ELSE "No ethereum provider found"

\* account_label.rs lines 10-22
AccountLabel(prov, conn, accs) ==
    IF prov # "none"
    THEN IF conn THEN display_address(accs) ELSE "Disconnected"
    ELSE "No ethereum provider found"

\* chain_id(): the stored chain id through U256::as_u64
chain_id_get ==
    IF chain_id.some
    THEN LET r == as_u64(chain_id.v)
         IN  [some |-> ~r.panic, v |-> r.v, panic |-> r.panic]
    ELSE [some |-> FALSE, v |-> 0, panic |-> FALSE]

\* the page is live: a handle exists and no panic has aborted the program
Live == provider # "none" /\ panicked = "no"
\* the provider and the user act between two runs of the task queue
Idle == Live /\ ~draining

Init ==
    /\ \E page \in Pages : provider = use_ethereum(page[1], page[2])
    /\ connected = FALSE
    /\ accounts = NoAccounts
    /\ chain_id = NoChain
    /\ wChain \in Chains
    /\ wAccounts \in AccountLists
    /\ parked = EmptyBag
    /\ chan = [s \in Streams |-> <<>>]
    /\ runq = <<>>
    /\ draining = FALSE
    /\ label = AccountLabel(provider, FALSE, NoAccounts)
    /\ panicked = "no"
    /\ hist = [chain |-> NoChain, chainBy |-> "init", accounts |-> NoAccounts,
               accountsBy |-> "init", nOk |-> 0, local |-> FALSE,
               one |-> [connected |-> FALSE, accounts |-> NoAccounts,
                        chain_id |-> NoChain]]

(***************************************************************************)
(* The task queue and the provider's event emitter.                        *)
(***************************************************************************)
\* wake the tasks of ts, in order: a task already queued is not queued twice
RECURSIVE Wake(_, _)
Wake(q, ts) ==
    IF ts = <<>> THEN q
    ELSE Wake(IF \E n \in 1..Len(q) : q[n] = Head(ts) THEN q ELSE Append(q, Head(ts)),
              Tail(ts))

\* the listener tasks of stream s, in subscription order
ListenerTasks(s) == [n \in 1..Len(chan[s]) |-> ListenerTask(s, n)]

\* the channels after the provider emitted item on stream s: every subscribed
\* listener's channel receives it
Delivered(s, item) ==
    [chan EXCEPT ![s] = [n \in 1..Len(chan[s]) |-> Append(chan[s][n], item)]]

\* the provider emits item on stream s
Emit(s, item) ==
    /\ chan' = Delivered(s, item)
    /\ runq' = Wake(runq, ListenerTasks(s))

\* the events of a stream not yet handled by all its listeners: the length of
\* its longest channel
RECURSIVE Longest(_)
Longest(cs) ==
    IF cs = <<>> THEN 0
    ELSE IF Len(Head(cs)) > Longest(Tail(cs)) THEN Len(Head(cs))
         ELSE Longest(Tail(cs))

RpcOps == {"switch_chain", "add_chain", "watch_asset", "switch_chain_with_fallback"}

\* the calls woken, whose method is in ops
Woken(ops) == {n \in 1..Len(runq) : runq[n].k = "call" /\ runq[n].f.op \in ops}

\* the events held in the channels and the answers that arrived
Queued == Longest(chan["chainChanged"]) + Longest(chan["accountsChanged"])
              + Longest(chan["connect"]) + Longest(chan["disconnect"])
              + Cardinality({n \in 1..Len(runq) : runq[n].k = "call"})

\* there is room for one more answer, or one more event of stream s
RoomForAnswer == Queued < MaxQueued
Room(s) == chan[s] = <<>> \/ Queued < MaxQueued

\* the calls in flight, parked or woken, whose method is in ops
InFlight(ops) ==
    BagCardinality([f \in {g \in BagToSet(parked) : g.op \in ops} |-> parked[f]])
        + Cardinality(Woken(ops))

\* some listener of stream s holds an event it has not handled
Waiting(s) == \E n \in 1..Len(chan[s]) : chan[s][n] # <<>>

\* one more call fits the bound
MayCall == Len(chan["chainChanged"]) + InFlight(RpcOps \cup {"connect"}) < MaxCalls

\* the running task, the head of the queue, parks at an await or ends
Yield ==
    /\ runq' = Tail(runq)
    /\ draining' = (Tail(runq) # <<>>)

Running == Live /\ runq # <<>>
RunningCall(op, pc) ==
    /\ Running
    /\ Head(runq).k = "call"
    /\ Head(runq).f.op = op
    /\ Head(runq).f.pc = pc

Park(f) == parked' = parked (+) SetToBag({f})
Unpark(f) == parked' = parked (-) SetToBag({f})

\* a write of connected or accounts re-renders AccountLabel
Rerender == label' = AccountLabel(provider, connected', accounts')

(***************************************************************************)
(* connect()                                                               *)
(***************************************************************************)
\* lines 29-33: the call, up to the await of request_accounts
ConnectCall ==
    /\ Idle
    /\ MayCall
    /\ Park(Call("connect", "awaitAccounts", <<"eth_requestAccounts">>, 0))
    /\ UNCHANGED <<provider, cells, wallet, chan, runq, draining, label,
                   panicked, hist>>

\* the provider answers call f with resp
Answer(f, resp) ==
    /\ RoomForAnswer
    /\ Unpark(f)
    /\ runq' = Append(runq, CallTask([f EXCEPT !.resp = resp]))

\* the provider answers request_accounts: the wallet's accounts, or an error
AnswerAccounts(f) ==
    /\ Idle
    /\ f.op = "connect" /\ f.pc = "awaitAccounts"
    /\ \E resp \in {ErrResp, AccountsResp(wAccounts)} : Answer(f, resp)
    /\ UNCHANGED <<provider, cells, wallet, chan, draining, label, panicked,
                   hist>>

\* a connect() that spawns the listeners before it queries the chain id
ConnectAccountsOkSpawning ==
    /\ RunningCall("connect", "awaitAccounts")
    /\ Head(runq).f.resp.st = "ok"
    /\ connected' = TRUE
    /\ accounts' = SomeAccounts(Head(runq).f.resp.accounts)
    /\ Park([Head(runq).f EXCEPT !.pc = "awaitChain", !.resp = NoResp,
                                 !.sent = Append(@, "eth_chainId")])
    /\ hist' = [(IF Waiting("accountsChanged") THEN hist
                 ELSE [hist EXCEPT !.accounts = accounts',
                                   !.accountsBy = "connect"])
                    EXCEPT !.local = FALSE,
                           !.one.connected = TRUE,
                           !.one.accounts = accounts']
    /\ runq' = Tail(runq) \o [n \in 1..Len(SpawnOrder) |->
                                  ListenerTask(SpawnOrder[n], 0)]
    /\ draining' = TRUE
    /\ Rerender
    /\ UNCHANGED <<provider, chain_id, wallet, chan, panicked>>

\* lines 33-39: request_accounts succeeded; connected and accounts are set and
\* the chain id is queried
ConnectAccountsOk ==
    /\ RunningCall("connect", "awaitAccounts")
    /\ Head(runq).f.resp.st = "ok"
    /\ connected' = TRUE
    /\ accounts' = SomeAccounts(Head(runq).f.resp.accounts)
    /\ Park([Head(runq).f EXCEPT !.pc = "awaitChain", !.resp = NoResp,
                                 !.sent = Append(@, "eth_chainId")])
    /\ hist' = [(IF Waiting("accountsChanged") THEN hist
                 ELSE [hist EXCEPT !.accounts = accounts',
                                   !.accountsBy = "connect"])
                    EXCEPT !.local = FALSE,
                           !.one.connected = TRUE,
                           !.one.accounts = accounts']
    /\ Yield
    /\ Rerender
    /\ UNCHANGED <<provider, chain_id, wallet, chan, panicked>>

\* request_accounts' error handed to the caller
ConnectAccountsErrPropagated ==
    /\ RunningCall("connect", "awaitAccounts")
    /\ Head(runq).f.resp.st = "err"
    /\ runq' = <<Returned(Head(runq).f, "Err")>> \o Tail(runq)
    /\ draining' = TRUE
    /\ UNCHANGED <<provider, cells, wallet, parked, chan, label, panicked, hist>>

\* lines 33, 94-95: request_accounts failed; nothing is done
ConnectAccountsErr ==
    /\ RunningCall("connect", "awaitAccounts")
    /\ Head(runq).f.resp.st = "err"
    /\ runq' = <<Returned(Head(runq).f, "Ok")>> \o Tail(runq)
    /\ draining' = TRUE
    /\ UNCHANGED <<provider, cells, wallet, parked, chan, label, panicked, hist>>

\* the provider answers the chain id query: the wallet's chain, or an error
AnswerChain(f) ==
    /\ Idle
    /\ f.op = "connect" /\ f.pc = "awaitChain"
    /\ \E resp \in {ErrResp, ChainResp(wChain)} : Answer(f, resp)
    /\ UNCHANGED <<provider, cells, wallet, chan, draining, label, panicked,
                   hist>>

\* the listener tasks without the one of the disconnect stream
SpawnedThree ==
    [n \in 1..3 |-> ListenerTask(SpawnOrder[n], 0)]

\* lines 41-93: the four listener tasks, in the order they are spawned
Spawned == [n \in 1..Len(SpawnOrder) |-> ListenerTask(SpawnOrder[n], 0)]

\* lines 39-95: chain_id is set to the answer's ok(), the four listener tasks
\* are spawned and Ok(()) is returned
ConnectChain ==
    /\ RunningCall("connect", "awaitChain")
    /\ chain_id' = ok(Head(runq).f.resp)
    /\ runq' = <<Returned(Head(runq).f, "Ok")>> \o Tail(runq) \o Spawned
    /\ draining' = TRUE
    /\ hist' = [hist EXCEPT !.chain = IF Waiting("chainChanged") THEN @
                                      ELSE chain_id',
                            !.chainBy = IF Waiting("chainChanged") THEN @
                                        ELSE "connect",
                            !.nOk = @ + 1,
                            !.one.chain_id = chain_id']
    /\ UNCHANGED <<provider, connected, accounts, wallet, parked, chan, label,
                   panicked>>

(***************************************************************************)
(* The listener tasks.                                                     *)
(***************************************************************************)
\* the first poll of a spawned listener task: on_<event> (lines 135-178)
\* creates the stream, which subscribes to the provider, and awaits its
\* first item
Subscribe(s) ==
    /\ Running
    /\ Head(runq) = ListenerTask(s, 0)
    /\ chan' = [chan EXCEPT ![s] = Append(@, <<>>)]
    /\ Yield
    /\ UNCHANGED <<provider, cells, wallet, parked, label, panicked, hist>>

\* the n-th listener of stream s takes the next item of its stream; it stays
\* the running task while its channel holds more
Take(s, n) ==
    /\ Running
    /\ Head(runq) = ListenerTask(s, n)
    /\ n \in 1..Len(chan[s])
    /\ chan[s][n] # <<>>
    /\ chan' = [chan EXCEPT ![s][n] = Tail(@)]
    /\ IF Tail(chan[s][n]) = <<>>
       THEN Yield
       ELSE runq' = runq /\ draining' = TRUE

\* the item the running listener takes
Item == chan[Head(runq).s][Head(runq).n][1]

\* the running listener is the first of its stream
First == Head(runq).n = 1

\* lines 153-154 and 48-50: the stream's U256 goes through to_string and
\* from_dec_str
ChainChangedValue(item) == from_dec_str(to_string(item))

\* lines 45-52
OnChainChanged ==
    /\ \E n \in 1..Len(chan["chainChanged"]) : Take("chainChanged", n)
    /\ IF ChainChangedValue(Item).ok
       THEN /\ chain_id' = SomeChain(ChainChangedValue(Item).v)
            /\ panicked' = panicked
       ELSE /\ chain_id' = chain_id
            /\ panicked' = "expect"
    /\ hist' = IF First THEN [hist EXCEPT !.one.chain_id = chain_id'] ELSE hist
    /\ UNCHANGED <<provider, connected, accounts, wallet, parked, label>>

\* an accountsChanged callback that marks the handle connected on a non-empty
\* list
OnAccountsChangedConnecting ==
    /\ \E n \in 1..Len(chan["accountsChanged"]) : Take("accountsChanged", n)
    /\ connected' = (Item # <<>>)
    /\ accounts' = SomeAccounts(Item)
    /\ hist' = [hist EXCEPT !.local = FALSE,
                            !.one.connected = IF First THEN Item # <<>> ELSE @,
                            !.one.accounts = IF First THEN accounts' ELSE @]
    /\ Rerender
    /\ UNCHANGED <<provider, chain_id, wallet, parked, panicked>>

\* lines 62-68, 141-143
OnAccountsChanged ==
    /\ \E n \in 1..Len(chan["accountsChanged"]) : Take("accountsChanged", n)
    /\ connected' = IF Item = <<>> THEN FALSE ELSE connected
    /\ accounts' = SomeAccounts(Item)
    /\ hist' = [hist EXCEPT !.local = IF Item = <<>> THEN FALSE ELSE @,
                            !.one.connected = IF First /\ Item = <<>> THEN FALSE
                                              ELSE @,
                            !.one.accounts = IF First THEN accounts' ELSE @]
    /\ Rerender
    /\ UNCHANGED <<provider, chain_id, wallet, parked, panicked>>

\* a connect callback that flips connected
OnConnectToggling ==
    /\ \E n \in 1..Len(chan["connect"]) : Take("connect", n)
    /\ connected' = ~connected
    /\ accounts' = accounts
    /\ hist' = [hist EXCEPT !.local = FALSE,
                            !.one.connected = IF First THEN ~@ ELSE @]
    /\ Rerender
    /\ UNCHANGED <<provider, chain_id, wallet, parked, panicked>>

\* lines 76-79, 164-165
OnConnect ==
    /\ \E n \in 1..Len(chan["connect"]) : Take("connect", n)
    /\ connected' = TRUE
    /\ accounts' = accounts
    /\ hist' = [hist EXCEPT !.local = FALSE,
                            !.one.connected = IF First THEN TRUE ELSE @]
    /\ Rerender
    /\ UNCHANGED <<provider, chain_id, wallet, parked, panicked>>

\* a disconnect callback that also forgets the accounts
OnDisconnectClearing ==
    /\ \E n \in 1..Len(chan["disconnect"]) : Take("disconnect", n)
    /\ connected' = FALSE
    /\ accounts' = NoAccounts
    /\ hist' = [hist EXCEPT !.local = FALSE,
                            !.one.connected = IF First THEN FALSE ELSE @,
                            !.one.accounts = IF First THEN NoAccounts ELSE @]
    /\ Rerender
    /\ UNCHANGED <<provider, chain_id, wallet, parked, panicked>>

\* lines 87-90, 175-176
OnDisconnect ==
    /\ \E n \in 1..Len(chan["disconnect"]) : Take("disconnect", n)
    /\ connected' = FALSE
    /\ accounts' = accounts
    /\ hist' = [hist EXCEPT !.local = FALSE,
                            !.one.connected = IF First THEN FALSE ELSE @]
    /\ Rerender
    /\ UNCHANGED <<provider, chain_id, wallet, parked, panicked>>

(***************************************************************************)
(* The wallet, acting on its own.                                          *)
(***************************************************************************)
Heard(s) == chan[s] # <<>>

\* the history of the events delivered to the handle
HeardChain(c) ==
    IF Heard("chainChanged")
    THEN [hist EXCEPT !.chain = SomeChain(c), !.chainBy = "event"] ELSE hist
HeardAccounts(l) ==
    IF Heard("accountsChanged")
    THEN [hist EXCEPT !.accounts = SomeAccounts(l), !.accountsBy = "event"]
    ELSE hist

WalletChainChanged(c) ==
    /\ Idle
    /\ Room("chainChanged")
    /\ c # wChain
    /\ wChain' = c
    /\ Emit("chainChanged", c)
    /\ hist' = HeardChain(c)
    /\ UNCHANGED <<provider, cells, wAccounts, parked, draining, label,
                   panicked>>

WalletAccountsChanged(l) ==
    /\ Idle
    /\ Room("accountsChanged")
    /\ l # wAccounts
    /\ wAccounts' = l
    /\ Emit("accountsChanged", l)
    /\ hist' = HeardAccounts(l)
    /\ UNCHANGED <<provider, cells, wChain, parked, draining, label,
                   panicked>>

WalletConnect ==
    /\ Idle
    /\ Room("connect")
    /\ Heard("connect")
    /\ Emit("connect", "connectInfo")
    /\ UNCHANGED <<provider, cells, wallet, parked, draining, label,
                   panicked, hist>>

WalletDisconnect ==
    /\ Idle
    /\ Room("disconnect")
    /\ Heard("disconnect")
    /\ Emit("disconnect", "error")
    /\ UNCHANGED <<provider, cells, wallet, parked, draining, label,
                   panicked, hist>>

(***************************************************************************)
(* disconnect() and chain_id().                                            *)
(***************************************************************************)
\* a disconnect() that also drops the listeners of the disconnect stream
DisconnectUnsubscribing ==
    /\ Idle
    /\ connected' = FALSE
    /\ accounts' = accounts
    /\ chan' = [s \in Streams |->
                  IF s = "disconnect" /\ \A n \in 1..Len(runq) : runq[n].s # s
                  THEN <<>> ELSE chan[s]]
    /\ hist' = [hist EXCEPT !.local = TRUE, !.one.connected = FALSE]
    /\ Rerender
    /\ UNCHANGED <<provider, chain_id, wallet, parked, runq, draining, panicked>>

\* lines 98-101
Disconnect ==
    /\ Idle
    /\ connected' = FALSE
    /\ accounts' = accounts
    /\ hist' = [hist EXCEPT !.local = TRUE, !.one.connected = FALSE]
    /\ Rerender
    /\ UNCHANGED <<provider, chain_id, wallet, parked, chan, runq, draining,
                   panicked>>

\* lines 112-114: the call returns chain_id_get, or aborts the program
ChainIdCall ==
    /\ Idle
    /\ panicked' = IF chain_id_get.panic THEN "chain_id" ELSE panicked
    /\ UNCHANGED <<provider, cells, wallet, parked, chan, runq, draining,
                   label, hist>>

(***************************************************************************)
(* The RPC helpers.  request() sends one request to the provider and       *)
(* awaits its answer (lines 234-238).                                      *)
(***************************************************************************)
RpcCall(f) ==
    /\ Idle
    /\ MayCall
    /\ Park(f)
    /\ UNCHANGED <<provider, cells, wallet, chan, runq, draining, label,
                   panicked, hist>>

\* lines 198-203: switch_chain up to its await
SwitchChainCall(c) ==
    RpcCall(Call("switch_chain", "awaitSwitch", <<"wallet_switchEthereumChain">>, c))

\* lines 211-216: add_chain up to its await
AddChainCall(c) ==
    RpcCall(Call("add_chain", "awaitAdd", <<"wallet_addEthereumChain">>, c))

\* lines 221-229: watch_asset up to its await
WatchAssetCall ==
    RpcCall(Call("watch_asset", "awaitWatch", <<"wallet_watchAsset">>, 0))

\* lines 185-186, and the click of SwitchNetworkButton: the call up to the
\* await of add_chain
SwitchChainWithFallbackCall(c) ==
    RpcCall(Call("switch_chain_with_fallback", "awaitAdd",
                 <<"wallet_addEthereumChain">>, c))

\* the provider rejects the request
AnswerRpcErr(f) ==
    /\ Idle
    /\ f.op \in RpcOps
    /\ Answer(f, ErrResp)
    /\ UNCHANGED <<provider, cells, wallet, chan, draining, label, panicked,
                   hist>>

\* the provider accepts wallet_addEthereumChain or wallet_watchAsset
AnswerRpcOk(f) ==
    /\ Idle
    /\ f.op \in RpcOps
    /\ f.pc \in {"awaitAdd", "awaitWatch"}
    /\ Answer(f, OkResp)
    /\ UNCHANGED <<provider, cells, wallet, chan, draining, label, panicked,
                   hist>>

\* the provider accepts wallet_switchEthereumChain: the wallet moves to the
\* target chain and, when that is a change, emits chainChanged
AnswerSwitchOk(f) ==
    /\ Idle
    /\ f.op \in RpcOps
    /\ f.pc = "awaitSwitch"
    /\ RoomForAnswer
    /\ Unpark(f)
    /\ wChain' = f.target
    /\ IF f.target # wChain
       THEN /\ chan["chainChanged"] = <<>> \/ Queued + 1 < MaxQueued
            /\ chan' = Delivered("chainChanged", f.target)
            /\ runq' = Append(Wake(runq, ListenerTasks("chainChanged")),
                              CallTask([f EXCEPT !.resp = OkResp]))
            /\ hist' = HeardChain(f.target)
       ELSE /\ chan' = chan
            /\ runq' = Append(runq, CallTask([f EXCEPT !.resp = OkResp]))
            /\ hist' = hist
    /\ UNCHANGED <<provider, cells, wAccounts, draining, label, panicked>>

\* Result::map / map_err: the answer as the helper's result
Result(resp) == IF resp.st = "ok" THEN "Ok" ELSE "Err"

\* a switch_chain that stores the chain it switched to
RpcReturnStoring ==
    /\ Running
    /\ Head(runq).k = "call"
    /\ Head(runq).f.op \in {"switch_chain", "add_chain", "watch_asset"}
    /\ Head(runq).f.pc # "returned"
    /\ runq' = <<Returned(Head(runq).f, Result(Head(runq).f.resp))>> \o Tail(runq)
    /\ draining' = TRUE
    /\ chain_id' = IF Head(runq).f.op = "switch_chain"
                       /\ Head(runq).f.resp.st = "ok"
                    THEN SomeChain(Head(runq).f.target) ELSE chain_id
    /\ UNCHANGED <<provider, connected, accounts, wallet, parked, chan, label,
                   panicked, hist>>

\* lines 203-205, 216-218, 229-231: the answer is mapped to the helper's result
RpcReturn ==
    /\ Running
    /\ Head(runq).k = "call"
    /\ Head(runq).f.op \in {"switch_chain", "add_chain", "watch_asset"}
    /\ Head(runq).f.pc # "returned"
    /\ runq' = <<Returned(Head(runq).f, Result(Head(runq).f.resp))>> \o Tail(runq)
    /\ draining' = TRUE
    /\ UNCHANGED <<provider, cells, wallet, parked, chan, label, panicked, hist>>

\* a fallback that returns add_chain's error instead of dropping it
FallbackSwitchChecked ==
    /\ RunningCall("switch_chain_with_fallback", "awaitAdd")
    /\ IF Head(runq).f.resp.st = "err"
       THEN /\ runq' = <<Returned(Head(runq).f, "Err")>> \o Tail(runq)
            /\ draining' = TRUE
            /\ parked' = parked
       ELSE /\ Park([Head(runq).f EXCEPT
                       !.pc = "awaitSwitch",
                       !.addResp = Head(runq).f.resp.st,
                       !.resp = NoResp,
                       !.sent = Append(@, "wallet_switchEthereumChain")])
            /\ Yield
    /\ UNCHANGED <<provider, cells, wallet, chan, label, panicked, hist>>

\* lines 186-187: add_chain's result is dropped and switch_chain is called
FallbackSwitch ==
    /\ RunningCall("switch_chain_with_fallback", "awaitAdd")
    /\ Park([Head(runq).f EXCEPT !.pc = "awaitSwitch",
                                 !.addResp = Head(runq).f.resp.st,
                                 !.resp = NoResp,
                                 !.sent = Append(@, "wallet_switchEthereumChain")])
    /\ Yield
    /\ UNCHANGED <<provider, cells, wallet, chan, label, panicked, hist>>

\* a fallback that sends the switch request once more when it failed
FallbackRetry ==
    /\ RunningCall("switch_chain_with_fallback", "awaitSwitch")
    /\ IF Head(runq).f.resp.st = "err" /\ Len(Head(runq).f.sent) < 3
       THEN /\ Park([Head(runq).f EXCEPT
                       !.resp = NoResp,
                       !.sent = Append(@, "wallet_switchEthereumChain")])
            /\ Yield
       ELSE /\ runq' = <<Returned(Head(runq).f, Result(Head(runq).f.resp))>>
                           \o Tail(runq)
            /\ draining' = TRUE
            /\ parked' = parked
    /\ UNCHANGED <<provider, cells, wallet, chan, label, panicked, hist>>

\* lines 187-188: switch_chain's error is returned by `?`, Ok(()) otherwise
FallbackReturn ==
    /\ RunningCall("switch_chain_with_fallback", "awaitSwitch")
    /\ runq' = <<Returned(Head(runq).f, Result(Head(runq).f.resp))>> \o Tail(runq)
    /\ draining' = TRUE
    /\ UNCHANGED <<provider, cells, wallet, parked, chan, label, panicked, hist>>

\* the caller has the result of the call that returned, and its task ends
Return ==
    /\ Running
    /\ Head(runq).k = "call"
    /\ Head(runq).f.pc = "returned"
    /\ Yield
    /\ UNCHANGED <<provider, cells, wallet, parked, chan, label, panicked, hist>>

(***************************************************************************)
(* The specification.                                                      *)
(***************************************************************************)
Parked == BagToSet(parked)

\* connect(), the listeners and the task queue
NextConnect ==
    \/ ConnectCall
    \/ \E f \in Parked : AnswerAccounts(f)
    \/ ConnectAccountsOk
    \/ ConnectAccountsErr
    \/ \E f \in Parked : AnswerChain(f)
    \/ ConnectChain
    \/ Return
    \/ \E s \in Streams : Subscribe(s)
    \/ OnChainChanged
    \/ Disconnect

\* the wallet acting on its own, its events handled, and chain_id()
NextWallet ==
    \/ OnAccountsChanged
    \/ OnConnect
    \/ OnDisconnect
    \/ \E c \in Chains : WalletChainChanged(c)
    \/ \E l \in AccountLists : WalletAccountsChanged(l)
    \/ WalletConnect
    \/ WalletDisconnect
    \/ ChainIdCall

\* the RPC helpers
NextRpc ==
    \/ \E c \in Chains : SwitchChainCall(c)
    \/ \E c \in Chains : AddChainCall(c)
    \/ WatchAssetCall
    \/ \E c \in Chains : SwitchChainWithFallbackCall(c)
    \/ \E f \in Parked : AnswerRpcErr(f)
    \/ \E f \in Parked : AnswerRpcOk(f)
    \/ \E f \in Parked : AnswerSwitchOk(f)
    \/ RpcReturn
    \/ FallbackSwitch
    \/ FallbackReturn

\* the session: connect(), disconnect(), chain_id() and the wallet's events
Spec == Init /\ [][NextConnect \/ NextWallet]_vars

\* the helpers: connect(), disconnect() and the RPC helpers, with a wallet that
\* changes chain only when asked to
SpecRpc == Init /\ [][NextConnect \/ NextRpc]_vars

(***************************************************************************)
(* Properties.                                                             *)
(***************************************************************************)
\* every event delivered to a listener has been handled
Quiescent == \A s \in Streams : ~Waiting(s)

Calls == Parked \cup {runq[n].f : n \in {m \in 1..Len(runq) : runq[m].k = "call"}}

\* the requests of call f, with their position in the order they were sent
Sent(f, method) == {n \in 1..Len(f.sent) : f.sent[n] = method}

\* C2: switch_chain_with_fallback sends wallet_addEthereumChain only as the
\* fallback: a call that has sent it has sent wallet_switchEthereumChain
\* before, and that request failed.  The code sends the add request first, on
\* every call, so this is violated by the call itself.
C2_AddOnlyAsFallback ==
    \A f \in Calls :
        f.op = "switch_chain_with_fallback" =>
            \A n \in Sent(f, "wallet_addEthereumChain") :
                \E m \in Sent(f, "wallet_switchEthereumChain") : m < n

\* C3: chain_id() returns a value, Some or None, for every stored chain id and
\* never aborts.  U256::as_u64 panics on a chain id above u64::MAX.
C3_NeverAborts == panicked # "chain_id"

\* the listener tasks of stream s, subscribed or spawned and about to subscribe
Listeners(s) ==
    Len(chan[s])
        + Cardinality({n \in 1..Len(runq) : runq[n] = ListenerTask(s, 0)})

\* the head of the task queue is a call of connect() that returned
ConnectReturned(q) ==
    /\ q # <<>>
    /\ Head(q).k = "call"
    /\ Head(q).f.op = "connect"
    /\ Head(q).f.pc = "returned"

\* the step runs the call at the head of the task queue, which is at pc of op
RanCall(op, pc) ==
    /\ RunningCall(op, pc)
    /\ Len(runq') < Len(runq) \/ Head(runq') # Head(runq)

\* C4: connect() returns Ok(()) on every path; the step that finds
\* request_accounts failed changes none of connected, accounts, chain_id and
\* subscribes no listener; the step that finds the chain id query failed sets
\* chain_id to None and leaves connected as the call set it.
C4_IgnoresErrors ==
    [][ /\ ConnectReturned(runq') => Head(runq').f.ret = "Ok"
        /\ (RanCall("connect", "awaitAccounts")
                /\ Head(runq).f.resp.st = "err") =>
              /\ cells' = cells
              /\ \A s \in Streams : Listeners(s)' = Listeners(s)
              /\ ConnectReturned(runq')
        /\ (RanCall("connect", "awaitChain")
                /\ Head(runq).f.resp.st = "err") =>
              /\ chain_id' = NoChain
              /\ connected' = connected /\ accounts' = accounts
              /\ ConnectReturned(runq') ]_vars

\* C4 witness: a connect() whose request_accounts failed has returned Ok, after
\* a connect() whose chain id query failed left connected true, chain_id None
C4_Witness ==
    /\ ConnectReturned(runq)
    /\ Head(runq).f.ret = "Ok"
    /\ Head(runq).f.resp.st = "err"
    /\ Head(runq).f.sent = <<"eth_requestAccounts">>
    /\ hist.nOk = 1
    /\ connected /\ accounts.some /\ chain_id = NoChain
    /\ \A s \in Streams : Listeners(s) = 1

\* C5: the streams are the four of the provider; listeners are added only by
\* the step of connect() that follows a successful request_accounts and the
\* chain id query, one per stream; a listener subscribes on its first poll; no
\* step removes a listener, and every stream has as many listeners as there
\* were successful calls of connect().
C5_Subscriptions ==
    [][ /\ DOMAIN chan' =
              {"chainChanged", "accountsChanged", "connect", "disconnect"}
        /\ \A s \in Streams :
              /\ Listeners(s)' >= Listeners(s)
              /\ Len(chan'[s]) >= Len(chan[s])
              /\ Listeners(s)' = hist'.nOk
              /\ Len(chan'[s]) # Len(chan[s]) =>
                    /\ Head(runq) = ListenerTask(s, 0)
                    /\ Len(chan'[s]) = Len(chan[s]) + 1
        /\ (\E s \in Streams : Listeners(s)' # Listeners(s)) =>
              /\ RanCall("connect", "awaitChain")
              /\ Head(runq).f.sent = <<"eth_requestAccounts", "eth_chainId">>
              /\ \A s \in Streams : Listeners(s)' = Listeners(s) + 1 ]_vars

\* C5 witness: two calls of connect() succeeded, disconnect() was called, and
\* every stream has two subscribed listeners
C5_Witness ==
    /\ Idle /\ runq = <<>>
    /\ hist.nOk = 2
    /\ \A s \in Streams : Len(chan[s]) = 2
    /\ ~connected

\* a listener of stream s takes item from its channel in this step
Took(s, item) ==
    /\ Len(chan'[s]) = Len(chan[s])
    /\ \E n \in 1..Len(chan[s]) :
          /\ chan[s][n] # <<>>
          /\ Head(chan[s][n]) = item
          /\ chan'[s][n] = Tail(chan[s][n])
TookAny(s) ==
    /\ Len(chan'[s]) = Len(chan[s])
    /\ \E n \in 1..Len(chan[s]) :
          chan[s][n] # <<>> /\ chan'[s][n] = Tail(chan[s][n])

\* C6 as stated: every callback writes only the field of its own event
C6_OwnFieldOnly ==
    [][ /\ TookAny("chainChanged") =>
              connected' = connected /\ accounts' = accounts
        /\ TookAny("accountsChanged") =>
              connected' = connected /\ chain_id' = chain_id
        /\ (TookAny("connect") \/ TookAny("disconnect")) =>
              accounts' = accounts /\ chain_id' = chain_id ]_vars

\* C6 amended: the chainChanged callback writes only chain_id, the connect and
\* disconnect callbacks write only connected, and the accountsChanged callback
\* writes accounts and never chain_id, and changes connected only to false and
\* only for an empty list.
C6_OwnFieldButAccounts ==
    [][ /\ TookAny("chainChanged") =>
              connected' = connected /\ accounts' = accounts
        /\ \A l \in AccountLists : Took("accountsChanged", l) =>
              /\ chain_id' = chain_id
              /\ connected' # connected => (l = <<>> /\ ~connected')
        /\ (TookAny("connect") \/ TookAny("disconnect")) =>
              accounts' = accounts /\ chain_id' = chain_id ]_vars

\* C6 witness: the first accountsChanged listener has handled the empty list,
\* the second is about to; connected is false and chain_id is still set
C6_Witness ==
    /\ draining /\ runq # <<>>
    /\ Head(runq) = ListenerTask("accountsChanged", 2)
    /\ chan["accountsChanged"] = << <<>>, << <<>> >> >>
    /\ accounts = SomeAccounts(<<>>)
    /\ ~connected
    /\ chain_id.some

\* the one request of a plain helper
Method(op) ==
    CASE op = "switch_chain" -> "wallet_switchEthereumChain"
      [] op = "add_chain" -> "wallet_addEthereumChain"
      [] op = "watch_asset" -> "wallet_watchAsset"
      [] OTHER -> "-"

C8_Label ==
    /\ provider = "none" => label = "No ethereum provider found"
    /\ (provider # "none" /\ ~connected) => label = "Disconnected"
    /\ (provider # "none" /\ connected) =>
          label = IF accounts.some /\ accounts.v # <<>>
                  THEN "0x" \o HexStr(accounts.v[1], H160HexLen)
                  ELSE ""

\* C8 witness: a provider disconnect event was handled while accounts holds an
\* address, and the label reads Disconnected
C8_Witness ==
    /\ provider # "none"
    /\ draining /\ runq # <<>>
    /\ Head(runq) = ListenerTask("disconnect", 2)
    /\ chan["disconnect"] = << <<>>, <<"error">> >>
    /\ ~connected
    /\ accounts.some /\ accounts.v # <<>>
    /\ label = "Disconnected"

\* the step is a call of disconnect()
DisconnectStep ==
    /\ runq' = runq /\ chan' = chan /\ parked' = parked
    /\ ~connected'
    /\ accounts' = accounts /\ chain_id' = chain_id

\* C9: the step of connect() that finds request_accounts succeeded sets
\* connected and accounts and spawns nothing; the step that has the answer of
\* the chain id query sets chain_id and spawns one listener per stream;
\* listeners appear in no other step; and until a first connect() has
\* completed there is no listener, so the three fields are changed by the
\* steps of connect() and by disconnect() only.
C9_WritesThenListeners ==
    [][ /\ (RanCall("connect", "awaitAccounts")
                /\ Head(runq).f.resp.st = "ok") =>
              /\ connected'
              /\ accounts' = SomeAccounts(Head(runq).f.resp.accounts)
              /\ chain_id' = chain_id
              /\ \A s \in Streams : Listeners(s)' = Listeners(s)
              /\ \E f \in BagToSet(parked') :
                    f.op = "connect" /\ f.pc = "awaitChain"
        /\ RanCall("connect", "awaitChain") =>
              /\ chain_id' = ok(Head(runq).f.resp)
              /\ connected' = connected /\ accounts' = accounts
              /\ \A s \in Streams : Listeners(s)' = Listeners(s) + 1
        /\ (\E s \in Streams : Listeners(s)' > Listeners(s)) =>
              RanCall("connect", "awaitChain")
        /\ hist.nOk = 0 =>
              /\ \A s \in Streams : Listeners(s) = 0
              /\ cells' # cells =>
                    \/ RanCall("connect", "awaitAccounts")
                    \/ RanCall("connect", "awaitChain")
                    \/ DisconnectStep ]_vars

\* C9 witness: the first connect() is between its writes: connected and
\* accounts are set, chain_id is not, there is no listener, and the wallet's
\* accounts have changed since without any effect on the handle
C9_Witness ==
    /\ hist.nOk = 0
    /\ connected /\ accounts.some /\ chain_id = NoChain
    /\ \E f \in Parked : f.op = "connect" /\ f.pc = "awaitChain"
    /\ wAccounts # accounts.v
    /\ \A s \in Streams : Listeners(s) = 0

\* C10: the accountsChanged callback sets accounts to Some(the event's list),
\* sets connected to false when the list is empty and leaves connected as it
\* is when the list is not empty.
C10_AccountsChanged ==
    [][ \A l \in AccountLists : Took("accountsChanged", l) =>
            /\ accounts' = SomeAccounts(l)
            /\ connected' = IF l = <<>> THEN FALSE ELSE connected ]_vars

\* C10 witness: the first accountsChanged listener has handled a non-empty
\* list while connected was false, and connected is still false
C10_Witness ==
    /\ draining /\ runq # <<>>
    /\ Head(runq) = ListenerTask("accountsChanged", 2)
    /\ chan["accountsChanged"] = << <<>>, << <<10, 11>> >> >>
    /\ accounts = SomeAccounts(<<10, 11>>)
    /\ ~connected
    /\ label = "Disconnected"

\* C11: disconnect() sets connected to false and nothing else: accounts and
\* chain_id keep their values, no request is sent, no listener is removed and
\* no task is woken; while connected is false the listeners still write
\* chain_id and accounts, and a connect event handled sets connected to true.
C11_DisconnectLocal ==
    [][ /\ Disconnect =>
              /\ ~connected'
              /\ accounts' = accounts /\ chain_id' = chain_id
              /\ parked' = parked /\ runq' = runq
              /\ chan' = chan
              /\ \A s \in Streams : Listeners(s)' = Listeners(s)
        /\ ~connected =>
              /\ \A c \in Chains : Took("chainChanged", c) =>
                    chain_id' = SomeChain(c)
              /\ \A l \in AccountLists : Took("accountsChanged", l) =>
                    accounts' = SomeAccounts(l)
              /\ TookAny("connect") => connected' ]_vars

\* C11 witness: disconnect() wrote connected last, no call of connect() is in
\* flight, and the listeners hold a chainChanged and a connect event
C11_Witness ==
    /\ hist.local /\ ~connected
    /\ ~\E f \in Calls : f.op = "connect"
    /\ accounts.some /\ chain_id.some
    /\ Waiting("chainChanged") /\ Waiting("connect")

RanRpc ==
    /\ Running
    /\ Head(runq).k = "call"
    /\ Head(runq).f.op \in RpcOps
    /\ Len(runq') < Len(runq) \/ Head(runq') # Head(runq)

\* the step calls an RPC helper or answers one
RpcParked == \E f \in BagToSet(parked) \cup BagToSet(parked') :
                 f.op \in RpcOps /\ CopiesIn(f, parked') # CopiesIn(f, parked)

\* C13: no step of an RPC helper, its call, its answer or its return, changes
\* connected, accounts or chain_id; chain_id changes only in the step of
\* connect() that has the chain id answer and in a chainChanged listener.
C13_HelpersWriteNothing ==
    [][ /\ (RanRpc \/ RpcParked) => cells' = cells
        /\ chain_id' # chain_id =>
              \/ RanCall("connect", "awaitChain")
              \/ TookAny("chainChanged") ]_vars

\* C13 witness: before any connect(), switch_chain has returned Ok and the
\* wallet is on the target chain, and chain_id is still None
C13_Witness ==
    /\ runq # <<>>
    /\ Head(runq).k = "call"
    /\ Head(runq).f.op = "switch_chain"
    /\ Head(runq).f.pc = "returned"
    /\ Head(runq).f.ret = "Ok"
    /\ wChain = Head(runq).f.target
    /\ hist.nOk = 0
    /\ ~\E f \in Calls : f.op = "connect"
    /\ chain_id = NoChain /\ accounts = NoAccounts /\ ~connected

\* no call of connect() has seen its request_accounts succeed
BeforeFirstAccounts ==
    /\ hist.nOk = 0
    /\ ~\E f \in Calls : f.op = "connect" /\ Len(f.sent) > 1

C15_ConnectedHasAddress == connected => address(accounts).some

\* a connect() has completed and nothing is pending: no call in flight, no
\* task queued, no event waiting in a channel
Settled ==
    /\ Idle /\ runq = <<>> /\ parked = EmptyBag
    /\ Quiescent
    /\ hist.nOk > 0

\* C16: once a connect() has completed and every answer and event is
\* processed, accounts is the wallet's accounts and chain_id, when the chain id
\* query succeeded, is the wallet's chain.  A change the wallet makes while
\* connect() waits for the chain id answer reaches no listener, as the
\* listeners subscribe only afterwards.
C16_NoLostChange ==
    Settled =>
        /\ accounts = SomeAccounts(wAccounts)
        /\ chain_id.some => chain_id = SomeChain(wChain)

\* a second or later listener of a stream is running or about to run: it
\* handles events the first listener of its stream has handled already
Replaying ==
    /\ runq # <<>>
    /\ Head(runq).k = "listener"
    /\ Head(runq).n > 1

\* the provider emits an event on stream s in this step
Emitted(s) ==
    /\ Len(chan'[s]) = Len(chan[s])
    /\ \E n \in 1..Len(chan[s]) : Len(chan'[s][n]) > Len(chan[s][n])

\* C17: every stream has as many listeners as calls of connect() succeeded,
\* four times that number in all; an event emitted is appended to the channel
\* of every listener of its stream; and whenever no second or later listener
\* is at work, connected, accounts and chain_id are what they are with the
\* first listener of each stream alone.
C17_RepeatedConnects ==
    [][ /\ \A s \in Streams : Listeners(s)' = hist'.nOk
        /\ Listeners("chainChanged")' + Listeners("accountsChanged")'
              + Listeners("connect")' + Listeners("disconnect")' = 4 * hist'.nOk
        /\ \A s \in Streams : Emitted(s) =>
              \A n \in 1..Len(chan[s]) :
                  chan'[s][n] =
                      Append(chan[s][n], chan'[s][1][Len(chan'[s][1])])
        /\ ~Replaying' =>
              /\ connected' = hist'.one.connected
              /\ accounts' = hist'.one.accounts
              /\ chain_id' = hist'.one.chain_id ]_vars

\* C17 witness: two listeners hold the same two chainChanged events; the first
\* has handled both, the second has handled the older one and set chain_id
\* back to it, and has the newer one left
C17_Witness ==
    /\ hist.nOk = 2
    /\ draining /\ runq # <<>>
    /\ Head(runq) = ListenerTask("chainChanged", 2)
    /\ chan["chainChanged"][1] = <<>>
    /\ Len(chan["chainChanged"][2]) = 1
    /\ chain_id # hist.one.chain_id
    /\ hist.one.chain_id = SomeChain(chan["chainChanged"][2][1])

====
